---- MODULE Spec2Model ----
(***************************************************************************)
(* Model of the competitive pricing analysis service (src/app.py,          *)
(* src/scraper.py, src/ai_extractor.py): the job registry, the HTTP        *)
(* handlers that create and read jobs, and the background thread that      *)
(* runs one job (run_analysis).                                            *)
(*                                                                         *)
(* Strings built with f-strings are modelled as tuples of their parts:     *)
(* f'Parsing sitemap for {name}' is <<"Parsing sitemap for", name>>.       *)
(* Python's None is the empty tuple << >> where the other values are       *)
(* tuples, and the record NoResponse for the HTTP response.                *)
(***************************************************************************)
EXTENDS Integers, Sequences, FiniteSets, TLC

(***************************************************************************)
(* Bounds and program constants                                            *)
(***************************************************************************)
\* The number of vehicle pages the largest sitemap of the world lists.
MaxLocs == 4

\* The number of vehicle pages the sitemap of the large dealer lists: more
\* than the status response shows errors.
MaxLotLocs == 11

\* The number of jobs submitted in the runs with several jobs.
MaxJobs == 2

\* app.py:23, the value of VDP_LIMIT when the environment does not set it.
DefaultVdpLimit == 3

\* app.py:228, the slice job.errors[-10:].
ErrorTail == 10

\* scraper.py:168, the default of retry_request's max_retries.
max_retries == 3

(***************************************************************************)
(* The outside world: what the competitor sites serve.  A URL is the tuple *)
(* of its host and its path, the empty string is the empty tuple.          *)
(***************************************************************************)
GunnSitemap == <<"www.gunnnissan.com", "sitemap.xml">>
DealerSitemap == <<"dealer.example", "sitemap.xml">>

GunnVdp(n) == <<"www.gunnnissan.com", "new-nissan-detail", n>>
GunnAbout == <<"www.gunnnissan.com", "about-new-nissan-detail">>
DealerVdp == <<"dealer.example", "vehicle/new-nissan">>

\* A dealer with a large stock, every page of its sitemap a vehicle page.
LotSitemap == <<"lot.example", "sitemap.xml">>
LotVdp(n) == <<"lot.example", "vehicle/new-nissan", n>>

\* The <loc> entries of each sitemap document, in document order: the first
\* vehicle page of Gunn Nissan, its About page, then its other vehicle
\* pages; the only vehicle page of the other dealer.
SitemapLocs(sitemap_url) ==
    IF sitemap_url = GunnSitemap
    THEN <<GunnVdp(1), GunnAbout>> \o [n \in 1..(MaxLocs - 1) |-> GunnVdp(n + 1)]
    ELSE IF sitemap_url = DealerSitemap
    THEN <<DealerVdp>>
    ELSE IF sitemap_url = LotSitemap
    THEN [n \in 1..MaxLotLocs |-> LotVdp(n)]
    ELSE << >>

\* urlparse(url).netloc
netloc(url) == url[1]

\* The substrings the scraper looks for that occur in each part of a URL.
TermsIn(part) ==
    CASE part = "www.gunnnissan.com" -> {"gunnnissan", "nissan"}
      [] part = "dealer.example" -> {}
      [] part = "lot.example" -> {}
      [] part = "sitemap.xml" -> {"sitemap"}
      [] part = "new-nissan-detail" -> {"new", "nissan", "detail"}
      [] part = "about-new-nissan-detail" -> {"about", "new", "nissan", "detail"}
      [] part = "vehicle/new-nissan" -> {"/vehicle/", "new", "nissan"}
      [] OTHER -> {}

\* scraper.py:27-40
extract_competitor_name(url) ==
    LET domain == netloc(url) IN
    IF "gunnnissan" \in TermsIn(domain) THEN "Gunn Nissan"
    ELSE IF "ingrampark" \in TermsIn(domain) THEN "Ingram Park Nissan"
    ELSE IF "nissanboerne" \in TermsIn(domain) \/ "boerne" \in TermsIn(domain)
         THEN "Nissan of Boerne"
    ELSE IF "championnissan" \in TermsIn(domain)
         THEN "Champion Nissan (New Braunfels)"
    ELSE domain

exclude_terms ==
    {"specials", "service", "parts", "about", "contact", "hours", "staff",
     "blog", "news", "reviews", "directions", "finance", "trade", "sitemap",
     "search", "inventory/new", "showroom", "certified", "used", "pre-owned"}

vdp_indicators == {"detail", "viewdetail", "/auto/", "/vehicle/"}

\* scraper.py:83-112
_is_new_nissan_vdp(url) ==
    LET url_lower == TermsIn(url[1]) \cup TermsIn(url[2])
        has_new == "new" \in url_lower \/ "/n/" \in url_lower
        has_nissan == "nissan" \in url_lower
        has_vin_or_detail == url_lower \cap vdp_indicators # {}
        has_exclude == url_lower \cap exclude_terms # {}
    IN has_new /\ has_nissan /\ has_vin_or_detail /\ ~has_exclude

\* The loop of parse_sitemap over the <loc> entries: keep the matching
\* URLs, stop as soon as vdp_limit of them are collected.
RECURSIVE FilterVdps(_, _, _)
FilterVdps(urls, vdp_urls, vdp_limit) ==
    IF urls = << >> THEN vdp_urls
    ELSE IF _is_new_nissan_vdp(Head(urls))
         THEN LET appended == Append(vdp_urls, Head(urls)) IN
              IF vdp_limit # 0 /\ Len(appended) >= vdp_limit
              THEN appended
              ELSE FilterVdps(Tail(urls), appended, vdp_limit)
         ELSE FilterVdps(Tail(urls), vdp_urls, vdp_limit)

\* The value parse_sitemap returns when the request and the XML parse
\* succeed.
parse_sitemap(sitemap_url, vdp_limit) ==
    FilterVdps(SitemapLocs(sitemap_url), << >>, vdp_limit)

\* The exception parse_sitemap raises, as str(e).
ParseSitemapError(sitemap_url) == <<"Failed to parse sitemap", sitemap_url>>

\* scrape_vdp's return value: competitor, url and the page content.
scrape_vdp(url) ==
    [competitor |-> extract_competitor_name(url),
     url |-> url,
     html_content |-> <<"html of", url>>]

\* The exception scrape_vdp raises, as str(e).
ScrapeVdpError(url) == <<"Failed to scrape VDP", url>>

\* scraper.py:168-177, retry_request for a function whose successive calls
\* end as outcomes says (TRUE: it returns): how often it is called, the
\* seconds slept between the calls, and whether the last exception is
\* raised.  parse_sitemap and scrape_vdp do not call it.
RECURSIVE RetryFrom(_, _, _)
RetryFrom(outcomes, attempt, waits) ==
    IF outcomes[attempt + 1]
    THEN [calls |-> attempt + 1, waits |-> waits, raised |-> FALSE]
    ELSE IF attempt = max_retries - 1
    THEN [calls |-> attempt + 1, waits |-> waits, raised |-> TRUE]
    ELSE RetryFrom(outcomes, attempt + 1, Append(waits, 2 ^ attempt))

retry_request(outcomes) == RetryFrom(outcomes, 0, << >>)

\* extract_vehicle_data never raises: every failure inside it degrades to
\* the 'Not Available' record.  The language model answers for Gunn pages
\* and fails for the others.
extract_vehicle_data(html_content, url) ==
    IF netloc(url) = "www.gunnnissan.com"
    THEN [vin |-> <<"vin of", url>>, make |-> <<"Nissan">>]
    ELSE [vin |-> <<"Not Available">>, make |-> <<"Nissan">>]

(***************************************************************************)
(* State                                                                   *)
(***************************************************************************)
VARIABLES
    VDP_LIMIT,          \* app.py:23, read from the environment at start-up
    analysis_results,   \* app.py:26, job_id -> AnalysisJob
    thread,             \* job_id -> the locals of its run_analysis thread
    exports,            \* the files of the exports/ directory, by path
    handler,            \* the start_analysis request being served, or None
    response,           \* the HTTP response sent by the last step, or None
    issued              \* the job_id the client received with its latest
                        \* request (None when that request was not a start)

vars == <<VDP_LIMIT, analysis_results, thread, exports, handler, response, issued>>

None == << >>
NoResponse == [route |-> "none"]
NoHandler == [route |-> "none"]

\* The values VDP_LIMIT is configured with: the default, a smaller cap, and
\* 0.
VdpLimits == {0, 1, DefaultVdpLimit}

\* The value str(uuid.uuid4()) returns for the job of a run.
Uuids == {<<"uuid", 1>>}
\* The identifiers a client may ask about: those and one that is never
\* issued.
RequestIds == Uuids \cup {<<"uuid", 0>>}

(***************************************************************************)
(* class AnalysisJob                                                       *)
(***************************************************************************)
AnalysisJob(job_id, sitemap_urls, openai_api_key) ==
    [job_id |-> job_id,
     sitemap_urls |-> sitemap_urls,
     openai_api_key |-> openai_api_key,
     status |-> <<"starting">>,
     progress |-> [current_competitor |-> "",
                   total_competitors |-> Len(sitemap_urls),
                   completed_competitors |-> 0,
                   current_vdp |-> 0,
                   total_vdps |-> 0,
                   processed_vdps |-> 0],
     results |-> << >>,
     errors |-> << >>,
     completed |-> FALSE,
     csv_path |-> None]

\* self.progress.update(kwargs): the given keys are overwritten, the others
\* kept.
update_progress(job, kwargs) ==
    [job EXCEPT !.progress = kwargs @@ job.progress]

\* add_result with the new result put first (list.insert(0, result)).
add_result_First(job, result) ==
    [job EXCEPT !.results = <<result>> \o job.results]

add_result(job, result) == [job EXCEPT !.results = Append(job.results, result)]

\* add_error with the new error put first (list.insert(0, error)).
add_error_First(job, error) == [job EXCEPT !.errors = <<error>> \o job.errors]

add_error(job, error) == [job EXCEPT !.errors = Append(job.errors, error)]

\* The locals of a run_analysis thread that thread.start() has just created.
NewThread ==
    [pc |-> "start",
     idx |-> 0,
     competitor_name |-> "",
     vdp_urls |-> << >>,
     vdp_idx |-> 0,
     discovered |-> << >>,
     requests |-> 0]

\* The path generate_csv writes to, f'exports/{job_id}.csv'.
CsvPathOf(job_id) == <<"exports/", job_id, ".csv">>

\* The rows generate_csv writes: a header and one row per result, or
\* nothing at all for an empty result list.
CsvRows(results) == IF results # << >> THEN <<"header">> \o results ELSE << >>

(***************************************************************************)
(* run_analysis, one action per step of the thread of job t.  A step ends  *)
(* with one write to a field of the job or to the export file, which are   *)
(* what the request handlers read.                                         *)
(***************************************************************************)
Job(t) == analysis_results[t]
At(t, label) == t \in DOMAIN thread /\ thread[t].pc = label

\* SetJob with errors an attribute of the class, one list shared by all
\* the jobs.
SetJob_SharedErrors(t, job) ==
    analysis_results' =
        [u \in DOMAIN analysis_results |->
            IF u = t THEN job
            ELSE [analysis_results[u] EXCEPT !.errors = job.errors]]

SetJob(t, job) == analysis_results' = [analysis_results EXCEPT ![t] = job]
Goto(t, label) == thread' = [thread EXCEPT ![t].pc = label]
\* The same after a call of parse_sitemap or scrape_vdp, which sends one
\* request, self.session.get (scraper.py:53 and 122), whether it then
\* returns or raises.
GotoAfterGet(t, label) ==
    thread' = [thread EXCEPT ![t].pc = label, ![t].requests = @ + 1]
RunnerFrame == /\ VDP_LIMIT' = VDP_LIMIT
               /\ handler' = handler
               /\ response' = NoResponse
               /\ issued' = issued

\* app.py:66
RunStart(t) ==
    /\ At(t, "start")
    /\ SetJob(t, [Job(t) EXCEPT !.status = <<"running">>])
    /\ Goto(t, "for_sitemap")
    /\ UNCHANGED exports
    /\ RunnerFrame

\* app.py:73-82, the head of the loop over the sitemaps and the first
\* update_progress of a competitor.
NextSitemap(t) ==
    /\ At(t, "for_sitemap")
    /\ thread[t].idx < Len(Job(t).sitemap_urls)
    /\ LET idx == thread[t].idx + 1
           sitemap_url == Job(t).sitemap_urls[idx]
           competitor_name == extract_competitor_name(sitemap_url)
       IN /\ SetJob(t, update_progress(Job(t),
                        [current_competitor |-> competitor_name,
                         completed_competitors |-> idx - 1,
                         current_vdp |-> 0,
                         total_vdps |-> 0]))
          /\ thread' = [thread EXCEPT ![t].idx = idx,
                                      ![t].competitor_name = competitor_name,
                                      ![t].pc = "status_parsing"]
    /\ UNCHANGED exports
    /\ RunnerFrame

\* app.py:85
StatusParsing(t) ==
    /\ At(t, "status_parsing")
    /\ SetJob(t, [Job(t) EXCEPT
                    !.status = <<"Parsing sitemap for", thread[t].competitor_name>>])
    /\ Goto(t, "parse_sitemap")
    /\ UNCHANGED exports
    /\ RunnerFrame

\* app.py:86-88, parse_sitemap returns.
ParseSitemapOk(t) ==
    /\ At(t, "parse_sitemap")
    /\ LET sitemap_url == Job(t).sitemap_urls[thread[t].idx]
           vdp_urls == parse_sitemap(sitemap_url, VDP_LIMIT)
       IN /\ SetJob(t, update_progress(Job(t), [total_vdps |-> Len(vdp_urls)]))
          /\ thread' = [thread EXCEPT
                          ![t].vdp_urls = vdp_urls,
                          ![t].vdp_idx = 0,
                          ![t].discovered = thread[t].discovered \o vdp_urls,
                          ![t].requests = @ + 1,
                          ![t].pc = "for_vdp"]
    /\ UNCHANGED exports
    /\ RunnerFrame

\* ParseSitemapFail with the failure handled by the outer try: the job
\* stops at the first sitemap that cannot be parsed.
ParseSitemapFail_Fatal(t) ==
    /\ At(t, "parse_sitemap")
    /\ LET sitemap_url == Job(t).sitemap_urls[thread[t].idx]
           error_msg == <<"Error processing sitemap", sitemap_url,
                          ParseSitemapError(sitemap_url)>>
       IN SetJob(t, add_error(Job(t), error_msg))
    /\ GotoAfterGet(t, "done")
    /\ UNCHANGED exports
    /\ RunnerFrame

\* app.py:86 and 133-136, parse_sitemap raises.
ParseSitemapFail(t) ==
    /\ At(t, "parse_sitemap")
    /\ LET sitemap_url == Job(t).sitemap_urls[thread[t].idx]
           error_msg == <<"Error processing sitemap", sitemap_url,
                          ParseSitemapError(sitemap_url)>>
       IN SetJob(t, add_error(Job(t), error_msg))
    /\ GotoAfterGet(t, "for_sitemap")
    /\ UNCHANGED exports
    /\ RunnerFrame

\* app.py:91-93, the head of the loop over the pages of a competitor.
NextVdp(t) ==
    /\ At(t, "for_vdp")
    /\ thread[t].vdp_idx < Len(thread[t].vdp_urls)
    /\ LET vdp_idx == thread[t].vdp_idx + 1
       IN /\ SetJob(t, update_progress(Job(t), [current_vdp |-> vdp_idx]))
          /\ thread' = [thread EXCEPT ![t].vdp_idx = vdp_idx,
                                      ![t].pc = "status_processing"]
    /\ UNCHANGED exports
    /\ RunnerFrame

\* app.py:94
StatusProcessing(t) ==
    /\ At(t, "status_processing")
    /\ SetJob(t, [Job(t) EXCEPT
                    !.status = <<"Processing", thread[t].competitor_name,
                                 thread[t].vdp_idx, Len(thread[t].vdp_urls)>>])
    /\ Goto(t, "scrape_vdp")
    /\ UNCHANGED exports
    /\ RunnerFrame

\* ProcessVdpOk with the result added and an error recorded as well, as if
\* a statement after add_result raised inside the try.
ProcessVdpOk_ThenRaises(t) ==
    /\ At(t, "scrape_vdp")
    /\ LET vdp_url == thread[t].vdp_urls[thread[t].vdp_idx]
           vdp_data == scrape_vdp(vdp_url)
           vehicle_data == extract_vehicle_data(vdp_data.html_content,
                                                vdp_data.url)
           result == [competitor |-> vdp_data.competitor,
                      url |-> vdp_data.url,
                      vin |-> vehicle_data.vin,
                      make |-> vehicle_data.make]
           error_msg == <<"Error processing", vdp_url, ScrapeVdpError(vdp_url)>>
       IN SetJob(t, add_error(add_result(Job(t), result), error_msg))
    /\ GotoAfterGet(t, "for_vdp")
    /\ UNCHANGED exports
    /\ RunnerFrame

\* app.py:97-120, the page is fetched and extracted and its result added.
ProcessVdpOk(t) ==
    /\ At(t, "scrape_vdp")
    /\ LET vdp_url == thread[t].vdp_urls[thread[t].vdp_idx]
           vdp_data == scrape_vdp(vdp_url)
           vehicle_data == extract_vehicle_data(vdp_data.html_content,
                                                vdp_data.url)
           result == [competitor |-> vdp_data.competitor,
                      url |-> vdp_data.url,
                      vin |-> vehicle_data.vin,
                      make |-> vehicle_data.make]
       IN SetJob(t, add_result(Job(t), result))
    /\ GotoAfterGet(t, "count_processed")
    /\ UNCHANGED exports
    /\ RunnerFrame

\* ProcessVdpFail as a retry loop: the failed page is fetched again, as
\* often as it fails.
ProcessVdpFail_RetriesForever(t) ==
    /\ At(t, "scrape_vdp")
    /\ Goto(t, "status_processing")
    /\ UNCHANGED <<analysis_results, exports>>
    /\ RunnerFrame

\* ProcessVdpFail with the failure handled outside the loop over the
\* pages: the rest of the competitor's pages are skipped.
ProcessVdpFail_SkipsRest(t) ==
    /\ At(t, "scrape_vdp")
    /\ LET vdp_url == thread[t].vdp_urls[thread[t].vdp_idx]
           error_msg == <<"Error processing", vdp_url, ScrapeVdpError(vdp_url)>>
       IN SetJob(t, add_error(Job(t), error_msg))
    /\ GotoAfterGet(t, "for_sitemap")
    /\ UNCHANGED exports
    /\ RunnerFrame

\* app.py:97 and 126-129, scrape_vdp raises.
ProcessVdpFail(t) ==
    /\ At(t, "scrape_vdp")
    /\ LET vdp_url == thread[t].vdp_urls[thread[t].vdp_idx]
           error_msg == <<"Error processing", vdp_url, ScrapeVdpError(vdp_url)>>
       IN SetJob(t, add_error(Job(t), error_msg))
    /\ GotoAfterGet(t, "for_vdp")
    /\ UNCHANGED exports
    /\ RunnerFrame

\* CountProcessed with the number of the page in place of the counter plus
\* one: the pages gone through, not the pages with a result.
CountProcessed_CurrentVdp(t) ==
    /\ At(t, "count_processed")
    /\ SetJob(t, update_progress(Job(t),
                    [processed_vdps |-> Job(t).progress.current_vdp]))
    /\ Goto(t, "sleep")
    /\ UNCHANGED exports
    /\ RunnerFrame

\* app.py:121
CountProcessed(t) ==
    /\ At(t, "count_processed")
    /\ SetJob(t, update_progress(Job(t),
                    [processed_vdps |-> Job(t).progress.processed_vdps + 1]))
    /\ Goto(t, "sleep")
    /\ UNCHANGED exports
    /\ RunnerFrame

\* app.py:124
Sleep(t) ==
    /\ At(t, "sleep")
    /\ Goto(t, "for_vdp")
    /\ UNCHANGED <<analysis_results, exports>>
    /\ RunnerFrame

\* EndCompetitor with the page counters reset as well, at the end of the
\* competitor instead of at the start of the next.
EndCompetitor_ResetsPages(t) ==
    /\ At(t, "for_vdp")
    /\ thread[t].vdp_idx >= Len(thread[t].vdp_urls)
    /\ SetJob(t, update_progress(Job(t),
                    [completed_competitors |-> thread[t].idx,
                     current_vdp |-> 0,
                     total_vdps |-> 0]))
    /\ Goto(t, "for_sitemap")
    /\ UNCHANGED exports
    /\ RunnerFrame

\* app.py:131, after the last page of a competitor.
EndCompetitor(t) ==
    /\ At(t, "for_vdp")
    /\ thread[t].vdp_idx >= Len(thread[t].vdp_urls)
    /\ SetJob(t, update_progress(Job(t),
                    [completed_competitors |-> thread[t].idx]))
    /\ Goto(t, "for_sitemap")
    /\ UNCHANGED exports
    /\ RunnerFrame

\* StatusGenerating with the path recorded before generate_csv is called.
StatusGenerating_SetsPath(t) ==
    /\ At(t, "for_sitemap")
    /\ thread[t].idx >= Len(Job(t).sitemap_urls)
    /\ SetJob(t, [Job(t) EXCEPT !.status = <<"Generating CSV">>,
                                !.csv_path = CsvPathOf(Job(t).job_id)])
    /\ Goto(t, "generate_csv")
    /\ UNCHANGED exports
    /\ RunnerFrame

\* app.py:139, after the last sitemap.
StatusGenerating(t) ==
    /\ At(t, "for_sitemap")
    /\ thread[t].idx >= Len(Job(t).sitemap_urls)
    /\ SetJob(t, [Job(t) EXCEPT !.status = <<"Generating CSV">>])
    /\ Goto(t, "generate_csv")
    /\ UNCHANGED exports
    /\ RunnerFrame

\* The exception generate_csv raises, as str(e).
ExportError == "OSError"

\* app.py:140 and 155-158, generate_csv creates the directory and opens the
\* file for writing, which truncates it.
OpenCsv(t) ==
    /\ At(t, "generate_csv")
    /\ exports' = (CsvPathOf(Job(t).job_id) :> [rows |-> << >>, closed |-> FALSE])
                  @@ exports
    /\ Goto(t, "write_csv")
    /\ UNCHANGED analysis_results
    /\ RunnerFrame

\* app.py:159-165, generate_csv writes the rows, closes the file and returns.
WriteCsv(t) ==
    /\ At(t, "write_csv")
    /\ exports' = [exports EXCEPT ![CsvPathOf(Job(t).job_id)] =
                     [rows |-> CsvRows(Job(t).results), closed |-> TRUE]]
    /\ Goto(t, "set_csv_path")
    /\ UNCHANGED analysis_results
    /\ RunnerFrame

\* app.py:140 and 147-148, generate_csv raises (before the file exists, or
\* while writing it) and the handler of the outer try sets the status.
GenerateCsvFail(t) ==
    /\ At(t, "generate_csv") \/ At(t, "write_csv")
    /\ SetJob(t, [Job(t) EXCEPT !.status = <<"error:", ExportError>>])
    /\ Goto(t, "critical_error")
    /\ UNCHANGED exports
    /\ RunnerFrame

\* app.py:149-150, the end of the thread after an escaped exception.
CriticalError(t) ==
    /\ At(t, "critical_error")
    /\ SetJob(t, add_error(Job(t), <<"Critical error", ExportError>>))
    /\ Goto(t, "done")
    /\ UNCHANGED exports
    /\ RunnerFrame

\* app.py:141
SetCsvPath(t) ==
    /\ At(t, "set_csv_path")
    /\ SetJob(t, [Job(t) EXCEPT !.csv_path = CsvPathOf(Job(t).job_id)])
    /\ Goto(t, "status_completed")
    /\ UNCHANGED exports
    /\ RunnerFrame

\* StatusCompleted with lines 144 and 145 exchanged: completed is set
\* first.
StatusCompleted_FlagFirst(t) ==
    /\ At(t, "status_completed")
    /\ SetJob(t, [Job(t) EXCEPT !.completed = TRUE])
    /\ Goto(t, "mark_completed")
    /\ UNCHANGED exports
    /\ RunnerFrame

\* app.py:144
StatusCompleted(t) ==
    /\ At(t, "status_completed")
    /\ SetJob(t, [Job(t) EXCEPT !.status = <<"completed">>])
    /\ Goto(t, "mark_completed")
    /\ UNCHANGED exports
    /\ RunnerFrame

\* app.py:145, the end of the thread on the normal path.
MarkCompleted(t) ==
    /\ At(t, "mark_completed")
    /\ SetJob(t, [Job(t) EXCEPT !.completed = TRUE])
    /\ Goto(t, "done")
    /\ UNCHANGED exports
    /\ RunnerFrame

run_analysis(t) ==
    \/ RunStart(t)
    \/ NextSitemap(t)
    \/ StatusParsing(t)
    \/ ParseSitemapOk(t)
    \/ ParseSitemapFail(t)
    \/ NextVdp(t)
    \/ StatusProcessing(t)
    \/ ProcessVdpOk(t)
    \/ ProcessVdpFail(t)
    \/ CountProcessed(t)
    \/ Sleep(t)
    \/ EndCompetitor(t)
    \/ StatusGenerating(t)
    \/ OpenCsv(t)
    \/ WriteCsv(t)
    \/ GenerateCsvFail(t)
    \/ CriticalError(t)
    \/ SetCsvPath(t)
    \/ StatusCompleted(t)
    \/ MarkCompleted(t)

(***************************************************************************)
(* The request handlers                                                    *)
(***************************************************************************)
\* A string of a request body: text, possibly surrounded by whitespace.
Raw(text) == [pad |-> FALSE, text |-> text]
Padded(text) == [pad |-> TRUE, text |-> text]

\* str.strip(): the surrounding whitespace is dropped.
strip(raw) == raw.text

\* dict.get(key, ''): the empty string when the key is missing.
get(data, key) == IF key \in DOMAIN data THEN data[key] ELSE Raw(<< >>)

\* The request bodies clients post to /api/start-analysis.
Payloads ==
    { [gunn_nissan_url |-> Raw(GunnSitemap),
       ingram_park_url |-> Padded(<< >>),
       boerne_url |-> Padded(DealerSitemap),
       openai_api_key |-> Padded(<<"sk-key">>)],
      [boerne_url |-> Raw(DealerSitemap),
       champion_nb_url |-> Raw(<< >>),
       openai_api_key |-> Raw(<<"sk-key">>)],
      [gunn_nissan_url |-> Padded(<< >>),
       openai_api_key |-> Raw(<<"sk-key">>)],
      [gunn_nissan_url |-> Raw(GunnSitemap),
       openai_api_key |-> Padded(<< >>)] }

\* FilteredUrls without the filter of line 188: the four stripped fields,
\* empty or not.
FilteredUrls_KeepsEmpty(data) ==
    <<strip(get(data, "gunn_nissan_url")),
      strip(get(data, "ingram_park_url")),
      strip(get(data, "boerne_url")),
      strip(get(data, "champion_nb_url"))>>

\* app.py:180-188, the four fields stripped and the empty ones dropped.
FilteredUrls(data) ==
    SelectSeq(<<strip(get(data, "gunn_nissan_url")),
                strip(get(data, "ingram_park_url")),
                strip(get(data, "boerne_url")),
                strip(get(data, "champion_nb_url"))>>,
              LAMBDA url : url # << >>)

HandlerFrame == UNCHANGED <<VDP_LIMIT, thread, exports>>

\* app.py:190-195, the two validation failures of start_analysis.
StartAnalysisReject(data) ==
    /\ handler = NoHandler
    /\ LET sitemap_urls == FilteredUrls(data)
           openai_api_key == strip(get(data, "openai_api_key"))
       IN /\ sitemap_urls = << >> \/ openai_api_key = << >>
          /\ response' = [route |-> "start-analysis",
                          code |-> 400,
                          error |-> IF sitemap_urls = << >>
                                    THEN "At least one sitemap URL is required"
                                    ELSE "OpenAI API key is required"]
    /\ issued' = None
    /\ UNCHANGED <<analysis_results, handler>>
    /\ HandlerFrame

\* StartAnalysisStore without line 200: the job is created and the thread
\* will be started, but the registry is not told.
StartAnalysisStore_NotStored(data, job_id) ==
    /\ handler = NoHandler
    /\ job_id \notin DOMAIN analysis_results
    /\ LET sitemap_urls == FilteredUrls(data)
           openai_api_key == strip(get(data, "openai_api_key"))
       IN /\ sitemap_urls # << >>
          /\ openai_api_key # << >>
    /\ handler' = [route |-> "start-analysis", job_id |-> job_id,
                   pc |-> "thread_start"]
    /\ response' = NoResponse
    /\ issued' = None
    /\ UNCHANGED analysis_results
    /\ HandlerFrame

\* app.py:198-200, the job is created under a new uuid4 and stored.
StartAnalysisStore(data, job_id) ==
    /\ handler = NoHandler
    /\ job_id \notin DOMAIN analysis_results
    /\ LET sitemap_urls == FilteredUrls(data)
           openai_api_key == strip(get(data, "openai_api_key"))
       IN /\ sitemap_urls # << >>
          /\ openai_api_key # << >>
          /\ analysis_results' =
                (job_id :> AnalysisJob(job_id, sitemap_urls, openai_api_key))
                @@ analysis_results
    /\ handler' = [route |-> "start-analysis", job_id |-> job_id,
                   pc |-> "thread_start"]
    /\ response' = NoResponse
    /\ issued' = None
    /\ HandlerFrame

\* app.py:203-205, the background thread is started.
StartAnalysisThread ==
    /\ handler.route = "start-analysis"
    /\ handler.pc = "thread_start"
    /\ thread' = (handler.job_id :> NewThread) @@ thread
    /\ handler' = [handler EXCEPT !.pc = "return"]
    /\ response' = NoResponse
    /\ UNCHANGED <<VDP_LIMIT, analysis_results, exports, issued>>

\* app.py:207-210
StartAnalysisReturn ==
    /\ handler.route = "start-analysis"
    /\ handler.pc = "return"
    /\ response' = [route |-> "start-analysis", code |-> 200,
                    job_id |-> handler.job_id]
    /\ issued' = handler.job_id
    /\ handler' = NoHandler
    /\ UNCHANGED analysis_results
    /\ HandlerFrame

\* job.errors[:10], the first entries instead of the last.
LastErrors_First(errors) ==
    IF Len(errors) <= ErrorTail THEN errors
    ELSE SubSeq(errors, 1, ErrorTail)

\* job.errors[-10:]
LastErrors(errors) ==
    IF Len(errors) <= ErrorTail THEN errors
    ELSE SubSeq(errors, Len(errors) - ErrorTail + 1, Len(errors))

\* app.py:214-229
job_status(job_id) ==
    IF job_id \notin DOMAIN analysis_results
    THEN [route |-> "job-status", job_id |-> job_id, code |-> 404,
          error |-> "Job not found"]
    ELSE LET job == analysis_results[job_id] IN
         [route |-> "job-status", job_id |-> job_id, code |-> 200,
          status |-> job.status,
          progress |-> job.progress,
          completed |-> job.completed,
          total_results |-> Len(job.results),
          total_errors |-> Len(job.errors),
          errors |-> LastErrors(job.errors)]

\* download_csv without the test of job.completed.
download_csv_PathOnly(job_id) ==
    IF job_id \notin DOMAIN analysis_results
    THEN [route |-> "download-csv", job_id |-> job_id, code |-> 404,
          error |-> "Job not found"]
    ELSE LET job == analysis_results[job_id] IN
         IF job.csv_path = None
         THEN [route |-> "download-csv", job_id |-> job_id, code |-> 400,
               error |-> "Job not completed or CSV not available"]
         ELSE [route |-> "download-csv", job_id |-> job_id, code |-> 200,
               file |-> exports[job.csv_path]]

\* app.py:233-248; send_file answers with the content of the file.
download_csv(job_id) ==
    IF job_id \notin DOMAIN analysis_results
    THEN [route |-> "download-csv", job_id |-> job_id, code |-> 404,
          error |-> "Job not found"]
    ELSE LET job == analysis_results[job_id] IN
         IF ~job.completed \/ job.csv_path = None
         THEN [route |-> "download-csv", job_id |-> job_id, code |-> 400,
               error |-> "Job not completed or CSV not available"]
         ELSE [route |-> "download-csv", job_id |-> job_id, code |-> 200,
               file |-> exports[job.csv_path]]

\* JobStatus with the errors handed out removed from the job, so that a
\* client sees each error once.
JobStatus_DrainsErrors(job_id) ==
    /\ response' = job_status(job_id)
    /\ issued' = None
    /\ analysis_results' =
          IF response'.code = 200
          THEN [analysis_results EXCEPT ![job_id].errors = << >>]
          ELSE analysis_results
    /\ UNCHANGED handler
    /\ HandlerFrame

JobStatus(job_id) ==
    /\ response' = job_status(job_id)
    /\ issued' = None
    /\ UNCHANGED <<analysis_results, handler>>
    /\ HandlerFrame

\* DownloadCsv with the job evicted from the registry once its file is
\* sent.
DownloadCsv_Evicts(job_id) ==
    /\ response' = download_csv(job_id)
    /\ issued' = None
    /\ analysis_results' =
          IF response'.code = 200
          THEN [t \in DOMAIN analysis_results \ {job_id} |-> analysis_results[t]]
          ELSE analysis_results
    /\ UNCHANGED handler
    /\ HandlerFrame

DownloadCsv(job_id) ==
    /\ response' = download_csv(job_id)
    /\ issued' = None
    /\ UNCHANGED <<analysis_results, handler>>
    /\ HandlerFrame

(***************************************************************************)
(* The specification                                                       *)
(***************************************************************************)
Init ==
    /\ VDP_LIMIT \in VdpLimits
    /\ analysis_results = << >>
    /\ thread = << >>
    /\ exports = << >>
    /\ handler = NoHandler
    /\ response = NoResponse
    /\ issued = None

Next ==
    \/ \E data \in Payloads : StartAnalysisReject(data)
    \/ \E data \in Payloads, job_id \in Uuids : StartAnalysisStore(data, job_id)
    \/ StartAnalysisThread
    \/ StartAnalysisReturn
    \/ \E job_id \in RequestIds : JobStatus(job_id)
    \/ \E job_id \in RequestIds : DownloadCsv(job_id)
    \/ \E t \in Uuids : RunStart(t)
    \/ \E t \in Uuids : NextSitemap(t)
    \/ \E t \in Uuids : StatusParsing(t)
    \/ \E t \in Uuids : ParseSitemapOk(t)
    \/ \E t \in Uuids : ParseSitemapFail(t)
    \/ \E t \in Uuids : NextVdp(t)
    \/ \E t \in Uuids : StatusProcessing(t)
    \/ \E t \in Uuids : ProcessVdpOk(t)
    \/ \E t \in Uuids : ProcessVdpFail(t)
    \/ \E t \in Uuids : CountProcessed(t)
    \/ \E t \in Uuids : Sleep(t)
    \/ \E t \in Uuids : EndCompetitor(t)
    \/ \E t \in Uuids : StatusGenerating(t)
    \/ \E t \in Uuids : OpenCsv(t)
    \/ \E t \in Uuids : WriteCsv(t)
    \/ \E t \in Uuids : GenerateCsvFail(t)
    \/ \E t \in Uuids : CriticalError(t)
    \/ \E t \in Uuids : SetCsvPath(t)
    \/ \E t \in Uuids : StatusCompleted(t)
    \/ \E t \in Uuids : MarkCompleted(t)

Spec == Init /\ [][Next]_vars

\* The threads are scheduled and every call to a collaborator returns or
\* raises: no step of a started thread, and no step of a request being
\* served, is postponed forever.
Fairness ==
    /\ \A t \in Uuids : WF_vars(run_analysis(t))
    /\ WF_vars(StartAnalysisThread)
    /\ WF_vars(StartAnalysisReturn)

FairSpec == Spec /\ Fairness

(***************************************************************************)
(* The service with the cap on pages switched off and one client that     *)
(* submits the large dealer and polls its job: the runs in which a job    *)
(* collects more errors than a status response shows.                     *)
(***************************************************************************)
LotPayload ==
    [champion_nb_url |-> Raw(LotSitemap),
     openai_api_key |-> Raw(<<"sk-key">>)]

TailInit ==
    /\ VDP_LIMIT = 0
    /\ analysis_results = << >>
    /\ thread = << >>
    /\ exports = << >>
    /\ handler = NoHandler
    /\ response = NoResponse
    /\ issued = None

TailNext ==
    \/ \E job_id \in Uuids : StartAnalysisStore(LotPayload, job_id)
    \/ StartAnalysisThread
    \/ StartAnalysisReturn
    \/ \E job_id \in Uuids : JobStatus(job_id)
    \/ \E t \in Uuids : RunStart(t)
    \/ \E t \in Uuids : NextSitemap(t)
    \/ \E t \in Uuids : StatusParsing(t)
    \/ \E t \in Uuids : ParseSitemapOk(t)
    \/ \E t \in Uuids : ParseSitemapFail(t)
    \/ \E t \in Uuids : NextVdp(t)
    \/ \E t \in Uuids : StatusProcessing(t)
    \/ \E t \in Uuids : ProcessVdpOk(t)
    \/ \E t \in Uuids : ProcessVdpFail(t)
    \/ \E t \in Uuids : CountProcessed(t)
    \/ \E t \in Uuids : Sleep(t)
    \/ \E t \in Uuids : EndCompetitor(t)
    \/ \E t \in Uuids : StatusGenerating(t)
    \/ \E t \in Uuids : OpenCsv(t)
    \/ \E t \in Uuids : WriteCsv(t)
    \/ \E t \in Uuids : GenerateCsvFail(t)
    \/ \E t \in Uuids : CriticalError(t)
    \/ \E t \in Uuids : SetCsvPath(t)
    \/ \E t \in Uuids : StatusCompleted(t)
    \/ \E t \in Uuids : MarkCompleted(t)

TailSpec == TailInit /\ [][TailNext]_vars

(***************************************************************************)
(* job_status statement by statement.  The handler runs in a thread of    *)
(* the server and the thread of the job runs beside it: the interpreter   *)
(* can switch between them after each read of a field of the job.  The    *)
(* action JobStatus above is the run of the handler without a switch.     *)
(* The dictionary job.progress is only referenced at line 222; jsonify    *)
(* reads its content, in one piece, when it serialises the response.      *)
(***************************************************************************)
Reading(label) == handler.route = "job-status" /\ handler.pc = label

\* What a step of the handler leaves alone on its way to the next read.
ReadFrame ==
    /\ response' = NoResponse
    /\ UNCHANGED <<analysis_results, issued>>
    /\ HandlerFrame

\* app.py:214-217
JobStatusLookup(job_id) ==
    /\ handler = NoHandler
    /\ IF job_id \notin DOMAIN analysis_results
       THEN /\ response' = [route |-> "job-status", job_id |-> job_id,
                            code |-> 404, error |-> "Job not found"]
            /\ handler' = handler
       ELSE /\ response' = NoResponse
            /\ handler' = [route |-> "job-status", job_id |-> job_id,
                           pc |-> "status"]
    /\ issued' = None
    /\ UNCHANGED analysis_results
    /\ HandlerFrame

\* app.py:221
JobStatusReadStatus ==
    /\ Reading("status")
    /\ handler' = ("status" :> Job(handler.job_id).status)
                  @@ [handler EXCEPT !.pc = "completed"]
    /\ ReadFrame

\* app.py:223
JobStatusReadCompleted ==
    /\ Reading("completed")
    /\ handler' = ("completed" :> Job(handler.job_id).completed)
                  @@ [handler EXCEPT !.pc = "total_results"]
    /\ ReadFrame

\* app.py:224
JobStatusReadTotalResults ==
    /\ Reading("total_results")
    /\ handler' = ("total_results" :> Len(Job(handler.job_id).results))
                  @@ [handler EXCEPT !.pc = "total_errors"]
    /\ ReadFrame

\* app.py:225
JobStatusReadTotalErrors ==
    /\ Reading("total_errors")
    /\ handler' = ("total_errors" :> Len(Job(handler.job_id).errors))
                  @@ [handler EXCEPT !.pc = "errors"]
    /\ ReadFrame

\* app.py:226
JobStatusReadErrors ==
    /\ Reading("errors")
    /\ handler' = ("errors" :> LastErrors(Job(handler.job_id).errors))
                  @@ [handler EXCEPT !.pc = "jsonify"]
    /\ ReadFrame

\* app.py:219, jsonify serialises the dictionary and the response is sent.
JobStatusJsonify ==
    /\ Reading("jsonify")
    /\ response' = [route |-> "job-status", job_id |-> handler.job_id,
                    code |-> 200,
                    status |-> handler.status,
                    progress |-> Job(handler.job_id).progress,
                    completed |-> handler.completed,
                    total_results |-> handler.total_results,
                    total_errors |-> handler.total_errors,
                    errors |-> handler.errors]
    /\ handler' = NoHandler
    /\ UNCHANGED <<analysis_results, issued>>
    /\ HandlerFrame

\* The submission of the small dealer.
DealerPayload ==
    [boerne_url |-> Raw(DealerSitemap),
     champion_nb_url |-> Raw(<< >>),
     openai_api_key |-> Raw(<<"sk-key">>)]

PollInit ==
    /\ VDP_LIMIT = DefaultVdpLimit
    /\ analysis_results = << >>
    /\ thread = << >>
    /\ exports = << >>
    /\ handler = NoHandler
    /\ response = NoResponse
    /\ issued = None

PollNext ==
    \/ \E job_id \in Uuids : StartAnalysisStore(DealerPayload, job_id)
    \/ StartAnalysisThread
    \/ StartAnalysisReturn
    \/ \E job_id \in Uuids : JobStatusLookup(job_id)
    \/ JobStatusReadStatus
    \/ JobStatusReadCompleted
    \/ JobStatusReadTotalResults
    \/ JobStatusReadTotalErrors
    \/ JobStatusReadErrors
    \/ JobStatusJsonify
    \/ \E t \in Uuids : RunStart(t)
    \/ \E t \in Uuids : NextSitemap(t)
    \/ \E t \in Uuids : StatusParsing(t)
    \/ \E t \in Uuids : ParseSitemapOk(t)
    \/ \E t \in Uuids : ParseSitemapFail(t)
    \/ \E t \in Uuids : NextVdp(t)
    \/ \E t \in Uuids : StatusProcessing(t)
    \/ \E t \in Uuids : ProcessVdpOk(t)
    \/ \E t \in Uuids : ProcessVdpFail(t)
    \/ \E t \in Uuids : CountProcessed(t)
    \/ \E t \in Uuids : Sleep(t)
    \/ \E t \in Uuids : EndCompetitor(t)
    \/ \E t \in Uuids : StatusGenerating(t)
    \/ \E t \in Uuids : OpenCsv(t)
    \/ \E t \in Uuids : WriteCsv(t)
    \/ \E t \in Uuids : GenerateCsvFail(t)
    \/ \E t \in Uuids : CriticalError(t)
    \/ \E t \in Uuids : SetCsvPath(t)
    \/ \E t \in Uuids : StatusCompleted(t)
    \/ \E t \in Uuids : MarkCompleted(t)

PollSpec == PollInit /\ [][PollNext]_vars

(***************************************************************************)
(* The service with the default cap and clients that submit the small     *)
(* dealer several times and poll the first job: the runs in which jobs    *)
(* run side by side.                                                      *)
(***************************************************************************)
\* The values str(uuid.uuid4()) returns, one per job.
JobUuids == {<<"uuid", n>> : n \in 1..MaxJobs}

\* uuid4 returns a value never returned before; which one does not matter,
\* so the jobs are numbered in the order of their creation.
NextUuid == <<"uuid", Cardinality(DOMAIN analysis_results) + 1>>

\* The identifier the clients ask about: that of the first job, before it
\* is issued and while the later jobs are created and run.
PolledUuids == {<<"uuid", 1>>}

JobsInit ==
    /\ VDP_LIMIT = DefaultVdpLimit
    /\ analysis_results = << >>
    /\ thread = << >>
    /\ exports = << >>
    /\ handler = NoHandler
    /\ response = NoResponse
    /\ issued = None

JobsNext ==
    \/ \E job_id \in JobUuids :
          /\ job_id = NextUuid
          /\ StartAnalysisStore(DealerPayload, job_id)
    \/ StartAnalysisThread
    \/ StartAnalysisReturn
    \/ \E job_id \in PolledUuids : JobStatus(job_id)
    \/ \E job_id \in PolledUuids : DownloadCsv(job_id)
    \/ \E t \in JobUuids : RunStart(t)
    \/ \E t \in JobUuids : NextSitemap(t)
    \/ \E t \in JobUuids : StatusParsing(t)
    \/ \E t \in JobUuids : ParseSitemapOk(t)
    \/ \E t \in JobUuids : ParseSitemapFail(t)
    \/ \E t \in JobUuids : NextVdp(t)
    \/ \E t \in JobUuids : StatusProcessing(t)
    \/ \E t \in JobUuids : ProcessVdpOk(t)
    \/ \E t \in JobUuids : ProcessVdpFail(t)
    \/ \E t \in JobUuids : CountProcessed(t)
    \/ \E t \in JobUuids : Sleep(t)
    \/ \E t \in JobUuids : EndCompetitor(t)
    \/ \E t \in JobUuids : StatusGenerating(t)
    \/ \E t \in JobUuids : OpenCsv(t)
    \/ \E t \in JobUuids : WriteCsv(t)
    \/ \E t \in JobUuids : GenerateCsvFail(t)
    \/ \E t \in JobUuids : CriticalError(t)
    \/ \E t \in JobUuids : SetCsvPath(t)
    \/ \E t \in JobUuids : StatusCompleted(t)
    \/ \E t \in JobUuids : MarkCompleted(t)

JobsSpec == JobsInit /\ [][JobsNext]_vars

(***************************************************************************)
(* Vocabulary of the properties                                            *)
(***************************************************************************)
Jobs == DOMAIN analysis_results

\* The thread of job t has executed its last statement.
Ended(t) == t \in DOMAIN thread /\ thread[t].pc = "done"

IsPageError(e) == e[1] = "Error processing"
IsSitemapError(e) == e[1] = "Error processing sitemap"
IsCriticalError(e) == e[1] = "Critical error"

PageErrors(job) == SelectSeq(job.errors, IsPageError)
SitemapErrors(job) == SelectSeq(job.errors, IsSitemapError)
CriticalErrors(job) == SelectSeq(job.errors, IsCriticalError)

Range(seq) == {seq[i] : i \in DOMAIN seq}
ResultUrls(job) == [i \in DOMAIN job.results |-> job.results[i].url]

\* The exception handler of run_analysis has run to its end.
EndedInError(t) == Ended(t) /\ Job(t).status[1] = "error:"

\* C1: when an exception escapes the pipeline (generate_csv raises), the job
\* ends with an 'error: ...' status, exactly one 'Critical error' entry,
\* completed = true and no csv_path.
C1_EscapedExceptionCompletes ==
    \A t \in Jobs :
        EndedInError(t) =>
            /\ Len(CriticalErrors(Job(t))) = 1
            /\ Job(t).csv_path = None
            /\ Job(t).completed

\* The step of thread t from the first state to the second is the failure
\* of the page it was fetching: it leaves scrape_vdp without a new result.
PageFailureStep(t) ==
    /\ At(t, "scrape_vdp")
    /\ thread'[t].pc # "scrape_vdp"
    /\ Len(analysis_results'[t].results) = Len(Job(t).results)

\* Every page the thread has gone past is named by a result or by a page
\* error.
PagesSoFarHaveOutcome(t) ==
    LET past == IF thread[t].pc \in {"status_processing", "scrape_vdp"}
                THEN Len(thread[t].discovered) - Len(thread[t].vdp_urls)
                     + thread[t].vdp_idx - 1
                ELSE Len(thread[t].discovered) - Len(thread[t].vdp_urls)
                     + thread[t].vdp_idx
    IN \A k \in 1..past :
          \/ thread[t].discovered[k] \in Range(ResultUrls(Job(t)))
          \/ \E e \in Range(PageErrors(Job(t))) : e[2] = thread[t].discovered[k]

SitemapFailureStep(t) ==
    /\ At(t, "parse_sitemap")
    /\ thread'[t].pc # "parse_sitemap"
    /\ thread'[t].discovered = thread[t].discovered
    /\ analysis_results'[t].progress = Job(t).progress

\* C4: a source whose parse_sitemap fails adds exactly one error entry
\* tagged with its sitemap URL and no result, and the thread goes on with
\* the next source; the job is not ended by it.
C4_SitemapFailureIsolated ==
    /\ [][\A t \in DOMAIN thread :
            SitemapFailureStep(t) =>
              LET sitemap_url == Job(t).sitemap_urls[thread[t].idx]
                  errors == analysis_results'[t].errors
              IN /\ Len(errors) = Len(Job(t).errors) + 1
                 /\ SubSeq(errors, 1, Len(Job(t).errors)) = Job(t).errors
                 /\ IsSitemapError(errors[Len(errors)])
                 /\ errors[Len(errors)][2] = sitemap_url
                 /\ analysis_results'[t] = [Job(t) EXCEPT !.errors = errors]
                 /\ thread'[t] = [thread[t] EXCEPT !.pc = "for_sitemap",
                                                   !.requests = @ + 1]]_vars
    /\ [](\A t \in DOMAIN thread :
            Ended(t) => thread[t].idx = Len(Job(t).sitemap_urls))

\* A job completed with the result of the second source although the
\* sitemap of the first could not be parsed.
C4_Witness ==
    \E t \in Jobs :
        /\ Job(t).completed
        /\ \E e \in Range(SitemapErrors(Job(t))) : e[2] = GunnSitemap
        /\ ResultUrls(Job(t)) = <<DealerVdp>>

RECURSIVE IsSubsequence(_, _)
IsSubsequence(s, whole) ==
    IF s = << >> THEN TRUE
    ELSE IF whole = << >> THEN FALSE
    ELSE IF Head(s) = Head(whole) THEN IsSubsequence(Tail(s), Tail(whole))
    ELSE IsSubsequence(s, Tail(whole))

RECURSIVE Concat(_)
Concat(seqs) == IF seqs = << >> THEN << >> ELSE Head(seqs) \o Concat(Tail(seqs))

\* The pages of a job in discovery order: the sources in submission order,
\* the pages of a source in the order of its sitemap.
DiscoveryOrder(job) ==
    Concat([i \in DOMAIN job.sitemap_urls |->
               parse_sitemap(job.sitemap_urls[i], VDP_LIMIT)])

\* The page succeeded in the job: no error entry names it or its source.
Succeeded(job, url) ==
    /\ \A e \in Range(PageErrors(job)) : e[2] # url
    /\ \A e \in Range(SitemapErrors(job)) : netloc(e[2]) # netloc(url)

\* C5: the URLs of results are always a subsequence of the discovery order
\* of the job's pages, and at completion they are that order restricted to
\* the pages that succeeded.
C5_ResultsInDiscoveryOrder ==
    \A t \in Jobs :
        /\ IsSubsequence(ResultUrls(Job(t)), DiscoveryOrder(Job(t)))
        /\ Job(t).completed =>
             ResultUrls(Job(t)) =
                SelectSeq(DiscoveryOrder(Job(t)),
                          LAMBDA url : Succeeded(Job(t), url))

\* A completed job with results of both sources and a failed page between
\* them.
C5_Witness ==
    \E t \in Jobs :
        /\ Job(t).completed
        /\ ResultUrls(Job(t)) = <<GunnVdp(1), GunnVdp(3), DealerVdp>>

\* C6: results never has more entries than pages were discovered so far,
\* and at completion the results and the page-level errors together are as
\* many as the pages discovered.
C6_OneOutcomePerPage ==
    \A t \in DOMAIN thread :
        /\ Len(Job(t).results) <= Len(thread[t].discovered)
        /\ Job(t).completed =>
             Len(Job(t).results) + Len(PageErrors(Job(t)))
                = Len(thread[t].discovered)

\* A completed job with a result, a page error and a sitemap error.
C6_Witness ==
    \E t \in DOMAIN thread :
        /\ Job(t).completed
        /\ Job(t).results # << >>
        /\ PageErrors(Job(t)) # << >>
        /\ SitemapErrors(Job(t)) # << >>

\* C8: download_csv answers 404 for an unknown identifier and 400 while
\* completed is false or csv_path is unset; it sends the file only when
\* completed is true and csv_path is set, and the file is then the finished
\* export of the job's results.
C8_DownloadOnlyWhenComplete ==
    response.route = "download-csv" =>
        LET job_id == response.job_id IN
        /\ job_id \notin Jobs => response.code = 404
        /\ job_id \in Jobs /\ ~Job(job_id).completed => response.code = 400
        /\ job_id \in Jobs /\ Job(job_id).csv_path = None => response.code = 400
        /\ response.code = 200 =>
             /\ job_id \in Jobs
             /\ Job(job_id).completed
             /\ Job(job_id).csv_path # None
             /\ response.file.closed
             /\ response.file.rows = CsvRows(Job(job_id).results)

\* A download answered with the file.
C8_Witness ==
    /\ response.route = "download-csv"
    /\ response.code = 200
    /\ response.file.rows # << >>

\* C10: completed is false while the thread has a statement left to
\* execute; only a step of the job's own thread changes it, and only to
\* true; and once it is true no field of the job changes again.
C10_CompletedIsLastWrite ==
    /\ [](\A t \in Jobs : ~Ended(t) => ~Job(t).completed)
    /\ [][\A t \in Jobs :
            /\ analysis_results'[t].completed # Job(t).completed =>
                 /\ analysis_results'[t].completed
                 /\ t \in DOMAIN thread
                 /\ thread'[t] # thread[t]
                 /\ \A u \in DOMAIN thread \ {t} : thread'[u] = thread[u]
            /\ Job(t).completed => analysis_results'[t] = Job(t)]_vars

\* A job whose thread has ended with completed = true.
C10_Witness == \E t \in Jobs : Ended(t) /\ Job(t).completed

\* generate_csv raised for job t.
ExportFailed(t) == t \in Jobs /\ Job(t).status[1] = "error:"

\* The terminal state of a successful run.
CompletedWithExport(t) ==
    /\ t \in Jobs
    /\ Job(t).status = <<"completed">>
    /\ Job(t).completed
    /\ Job(t).csv_path # None

\* C2: every job whose export does not fail eventually has status
\* 'completed', completed = true and csv_path set, however many of its
\* sources and pages fail, provided its thread is scheduled and every call
\* it makes returns or raises.
C2_EventuallyCompleted ==
    \A t \in Uuids :
        (t \in Jobs) ~> (CompletedWithExport(t) \/ ExportFailed(t))

\* A job completed with an export although every source failed.
C2_Witness ==
    \E t \in Jobs :
        /\ CompletedWithExport(t)
        /\ Len(Job(t).sitemap_urls) = 2
        /\ Len(SitemapErrors(Job(t))) = 2
        /\ Job(t).results = << >>

Rejects ==
    /\ response'.route = "start-analysis"
    /\ response'.code = 400

\* C12: a submission is rejected with a 400 response when its filtered
\* source list is empty or its key blank, and the rejection leaves the
\* registry, the threads and the request being served as they were; every
\* job of the registry has a non-empty list of non-empty sources and a
\* non-blank key, so no such submission ever got a job or a thread.
C12_RejectedNeverReachesRunner ==
    /\ [][Rejects =>
            /\ analysis_results' = analysis_results
            /\ thread' = thread
            /\ exports' = exports
            /\ handler' = handler]_vars
    /\ [](\A t \in Jobs :
            /\ Job(t).sitemap_urls # << >>
            /\ \A i \in DOMAIN Job(t).sitemap_urls :
                  Job(t).sitemap_urls[i] # << >>
            /\ Job(t).openai_api_key # << >>)
    /\ [](DOMAIN thread \subseteq Jobs)

\* A submission with a blank key rejected while a job is running: the job
\* and its thread are still there.
C12_Witness ==
    /\ response.route = "start-analysis"
    /\ response.code = 400
    /\ response.error = "OpenAI API key is required"
    /\ \E t \in DOMAIN thread : thread[t].pc = "scrape_vdp"

\* C13: the registry is insert-only.  A step adds at most one entry and
\* removes none; an entry keeps its job (its job_id, sources and key) for
\* ever, is filed under that job's own job_id, and is left as it is by
\* every step that is not a step of its own thread; the identifier a client
\* was given is filed.
C13_RegistryInsertOnly ==
    /\ [][/\ Jobs \subseteq DOMAIN analysis_results'
          /\ Cardinality(DOMAIN analysis_results' \ Jobs) <= 1
          /\ \A t \in Jobs :
                /\ analysis_results'[t].job_id = Job(t).job_id
                /\ analysis_results'[t].sitemap_urls = Job(t).sitemap_urls
                /\ analysis_results'[t].openai_api_key = Job(t).openai_api_key
                /\ (t \notin DOMAIN thread \/ thread'[t] = thread[t])
                      => analysis_results'[t] = Job(t)]_vars
    /\ [](\A t \in Jobs : Job(t).job_id = t)
    /\ [](issued # None => issued \in Jobs)

\* Two jobs filed, the first completed and downloaded while the second is
\* running.
C13_Witness ==
    /\ Cardinality(Jobs) = 2
    /\ response.route = "download-csv"
    /\ response.code = 200
    /\ \E t \in DOMAIN thread : thread[t].pc = "scrape_vdp"

\* The step is the one in which the thread of job t starts a new
\* competitor.
StartsCompetitor(t) ==
    /\ t \in DOMAIN thread
    /\ thread[t].pc = "for_sitemap"
    /\ thread'[t].idx = thread[t].idx + 1

\* C14: no step decreases completed_competitors or processed_vdps, and a
\* step that decreases current_vdp or total_vdps is the step that starts a
\* new competitor and leaves both at 0; total_competitors never changes.
C14_ProgressMonotonic ==
    [][\A t \in Jobs :
         LET old == Job(t).progress
             new == analysis_results'[t].progress
         IN /\ new.completed_competitors >= old.completed_competitors
            /\ new.processed_vdps >= old.processed_vdps
            /\ new.total_competitors = old.total_competitors
            /\ (new.current_vdp < old.current_vdp
                  \/ new.total_vdps < old.total_vdps) =>
                 /\ StartsCompetitor(t)
                 /\ new.current_vdp = 0
                 /\ new.total_vdps = 0]_vars

\* The second competitor has just been started after a first one with
\* pages: the page counters are back at 0, the others are not.
C14_Witness ==
    \E t \in DOMAIN thread :
        /\ thread[t].pc = "status_parsing"
        /\ thread[t].idx = 2
        /\ Len(thread[t].vdp_urls) > 1
        /\ Job(t).progress.current_vdp = 0
        /\ Job(t).progress.total_vdps = 0
        /\ Job(t).progress.completed_competitors = 1
        /\ Job(t).progress.processed_vdps > 0

\* The first m errors of the job.
FirstErrors(job, m) == SubSeq(job.errors, 1, m)

\* C15 as claimed: a status response built while the thread of the job
\* takes steps reports the progress of one update_progress, and its error
\* list is the last min(10, total_errors) of the first total_errors errors
\* of the job.
C15_ConsistentSnapshot ==
    response.route = "job-status" /\ response.code = 200 =>
        LET job == Job(response.job_id) IN
        /\ response.progress = job.progress
        /\ response.total_errors <= Len(job.errors)
        /\ response.errors = LastErrors(FirstErrors(job, response.total_errors))

\* C15, amended: the progress reported is that of one update_progress, and
\* the error list is the last min(10, m) of the first m errors of the job
\* for some m from total_errors, as reported in the same response, up to
\* the number of errors the job has when the response is sent; the counts
\* reported are not larger than the lists are then.
C15_SnapshotOfEachField ==
    response.route = "job-status" /\ response.code = 200 =>
        LET job == Job(response.job_id) IN
        /\ response.progress = job.progress
        /\ response.total_results <= Len(job.results)
        /\ response.total_errors <= Len(job.errors)
        /\ \E m \in response.total_errors..Len(job.errors) :
              response.errors = LastErrors(FirstErrors(job, m))

\* A status response that lists an error and counts none: the thread
\* added the error between the two reads of job.errors.
C15_Witness ==
    /\ response.route = "job-status"
    /\ response.code = 200
    /\ response.total_errors = 0
    /\ Len(response.errors) = 1

\* The export file of job u, if there is one.
ExportOf(files, u) ==
    IF CsvPathOf(u) \in DOMAIN files THEN files[CsvPathOf(u)] ELSE None

\* C16: a job has one thread, started by the request that created the job
\* and never started again; a step of the thread of one job leaves every
\* other job, its thread and its export file unchanged, and a job is
\* changed by the steps of its own thread only.
C16_OneRunnerPerJob ==
    /\ [](DOMAIN thread \subseteq Jobs)
    /\ [](\A t \in Jobs \ DOMAIN thread :
            /\ handler.route = "start-analysis"
            /\ handler.job_id = t
            /\ handler.pc = "thread_start")
    /\ [][\A t \in DOMAIN thread :
            /\ t \in DOMAIN thread'
            /\ thread[t].pc # "start" => thread'[t].pc # "start"
            /\ thread'[t] # thread[t] =>
                 \A u \in Jobs \ {t} :
                    /\ analysis_results'[u] = Job(u)
                    /\ u \in DOMAIN thread => thread'[u] = thread[u]
                    /\ ExportOf(exports', u) = ExportOf(exports, u)]_vars
    /\ [][\A u \in Jobs :
            analysis_results'[u] # Job(u) =>
               /\ u \in DOMAIN thread
               /\ thread'[u] # thread[u]]_vars

\* Two jobs running side by side, one with a result and one with an error.
C16_Witness ==
    \E t, u \in DOMAIN thread :
        /\ t # u
        /\ thread[t].pc = "sleep"
        /\ Job(t).results # << >>
        /\ Job(t).errors = << >>
        /\ thread[u].pc = "generate_csv"
        /\ Job(u).errors # << >>
        /\ Job(u).results = << >>

\* The step answers a status query or a download.
Answers(route) == response'.route = route

\* C17: a step that answers a status query or a download leaves the
\* registry, every job, the threads and the export files unchanged; a status
\* query that directly follows one for the same identifier gets the same
\* response, and a download that directly follows one for the same
\* identifier gets the same file.
C17_ReadersChangeNothing ==
    /\ [][Answers("job-status") \/ Answers("download-csv") =>
            /\ analysis_results' = analysis_results
            /\ thread' = thread
            /\ exports' = exports
            /\ handler' = handler]_vars
    /\ [][(/\ response.route = "job-status"
           /\ Answers("job-status")
           /\ response'.job_id = response.job_id) => response' = response]_vars
    /\ [][(/\ response.route = "download-csv"
           /\ Answers("download-csv")
           /\ response'.job_id = response.job_id) => response' = response]_vars

\* A status query answered in the middle of a run, with a result and an
\* error to report: the job still has both.
C17_Witness ==
    /\ response.route = "job-status"
    /\ response.code = 200
    /\ ~response.completed
    /\ response.total_results > 0
    /\ response.errors # << >>
    /\ Job(response.job_id).errors = response.errors
    /\ Len(Job(response.job_id).results) = response.total_results

\* The thread of job t is inside the body of the loop over the sources.
WorkingOnSource(t) ==
    thread[t].pc \in {"status_parsing", "parse_sitemap", "for_vdp",
                      "status_processing", "scrape_vdp", "count_processed",
                      "sleep"}

\* C18: completed_competitors is idx - 1 while the thread works on the
\* source of index idx and idx once it has left that source, whether its
\* pages succeeded or failed or its sitemap could not be parsed; so it is
\* total_competitors in every completed job.
C18_CompletedCompetitorsIsIndex ==
    \A t \in DOMAIN thread :
        LET completed_competitors == Job(t).progress.completed_competitors IN
        /\ WorkingOnSource(t) => completed_competitors = thread[t].idx - 1
        /\ ~WorkingOnSource(t) => completed_competitors = thread[t].idx
        /\ Job(t).completed =>
              completed_competitors = Job(t).progress.total_competitors

\* Every call of the function fails.
AllFail == [attempt \in 1..max_retries |-> FALSE]

\* C19: when a request of parse_sitemap or scrape_vdp fails it is sent
\* again, and the exception reaches run_analysis only after the request
\* has been sent as often as retry_request calls a function that always
\* fails.
C19_FailureAfterRetries ==
    [][\A t \in DOMAIN thread :
         SitemapFailureStep(t) \/ PageFailureStep(t) =>
            thread'[t].requests =
               thread[t].requests + retry_request(AllFail).calls]_vars

\* The thread of job t comes to the head of the loop over the pages
\* between two pages of a source.
BetweenPages(t) ==
    /\ thread[t].pc # "for_vdp"
    /\ thread'[t].pc = "for_vdp"
    /\ thread'[t].vdp_idx >= 1
    /\ thread'[t].vdp_idx < Len(thread'[t].vdp_urls)

\* C20: between two consecutive pages of a source the thread sleeps once:
\* it comes to the next page from the sleep, whether the page before
\* succeeded or failed.
C20_DelayAfterEveryPage ==
    [][\A t \in DOMAIN thread :
         BetweenPages(t) => thread[t].pc = "sleep"]_vars

\* The vehicle pages a sitemap lists, in the order of the document.
MatchingLocs(sitemap_url) ==
    SelectSeq(SitemapLocs(sitemap_url), LAMBDA url : _is_new_nissan_vdp(url))

\* The thread of job t has the list of pages of its current source.
HasPages(t) ==
    thread[t].pc \in {"for_vdp", "status_processing", "scrape_vdp",
                      "count_processed", "sleep"}

\* C21: whatever VDP_LIMIT is configured, the list parse_sitemap returned
\* for the current source is the first VDP_LIMIT vehicle pages of its
\* sitemap (all of them if there are fewer) and no error is recorded for
\* it, and total_vdps is never larger than VDP_LIMIT.
C21_CappedAtLimit ==
    \A t \in DOMAIN thread :
        /\ Job(t).progress.total_vdps <= VDP_LIMIT
        /\ HasPages(t) =>
              LET sitemap_url == Job(t).sitemap_urls[thread[t].idx]
                  all == MatchingLocs(sitemap_url)
                  n == IF Len(all) < VDP_LIMIT THEN Len(all) ELSE VDP_LIMIT
              IN /\ thread[t].vdp_urls = SubSeq(all, 1, n)
                 /\ Job(t).progress.total_vdps = n
                 /\ \A e \in Range(SitemapErrors(Job(t))) : e[2] # sitemap_url

\* C22: processed_vdps is len(results), or len(results) - 1 between
\* add_result and the update of the counter for the same page; the failure
\* of a page leaves it as it is; in a completed job it is len(results).
C22_ProcessedCountsResults ==
    /\ [](\A t \in Jobs :
            LET processed_vdps == Job(t).progress.processed_vdps IN
            /\ IF t \in DOMAIN thread /\ thread[t].pc = "count_processed"
               THEN processed_vdps = Len(Job(t).results) - 1
               ELSE processed_vdps = Len(Job(t).results)
            /\ Job(t).completed => processed_vdps = Len(Job(t).results))
    /\ [][\A t \in DOMAIN thread :
            PageFailureStep(t) =>
               analysis_results'[t].progress.processed_vdps
                  = Job(t).progress.processed_vdps]_vars

\* A completed job with results of two sources and failed pages: fewer
\* pages counted than gone through.
C22_Witness ==
    \E t \in Jobs :
        /\ Job(t).completed
        /\ Job(t).progress.processed_vdps = 2
        /\ ResultUrls(Job(t)) = <<GunnVdp(2), DealerVdp>>
        /\ Len(PageErrors(Job(t))) = 2

\* The thread of job t, if it runs already, has not yet got an answer
\* from its first call of parse_sitemap.
BeforeFirstAnswer(t) ==
    t \in DOMAIN thread =>
        \/ thread[t].idx = 0
        \/ thread[t].idx = 1 /\ thread[t].pc \in {"status_parsing", "parse_sitemap"}

\* C7 as claimed: the status query that directly follows the return of
\* start_analysis, for the identifier it returned, finds the job with
\* completed = false and no results and no errors.
C7_FirstQuerySeesInitialJob ==
    [][(/\ issued # None
        /\ issued' = None
        /\ response'.route = "job-status"
        /\ response'.job_id = issued)
       => /\ response'.code = 200
          /\ response'.completed = FALSE
          /\ response'.total_results = 0
          /\ response'.total_errors = 0]_vars

\* C7, amended: start_analysis stores the new job, in its initial state,
\* before it starts the thread and before it returns; a status query for a
\* stored identifier never answers 404, and it reports completed = false,
\* no results and no errors as long as the thread has not got an answer
\* from its first call of parse_sitemap.
C7_StoredBeforeThreadAndReturn ==
    /\ DOMAIN thread \subseteq Jobs
    /\ handler.route = "start-analysis" => handler.job_id \in Jobs
    /\ issued # None => issued \in Jobs
    /\ \A t \in Jobs :
          /\ t \notin DOMAIN thread =>
                Job(t) = AnalysisJob(t, Job(t).sitemap_urls, Job(t).openai_api_key)
          /\ BeforeFirstAnswer(t) =>
                /\ ~Job(t).completed
                /\ Job(t).results = << >>
                /\ Job(t).errors = << >>
    /\ response.route = "job-status" /\ response.job_id \in Jobs =>
          /\ response.code = 200
          /\ BeforeFirstAnswer(response.job_id) =>
                /\ response.completed = FALSE
                /\ response.total_results = 0
                /\ response.total_errors = 0

\* A status query answered while the thread, already running, waits for
\* its first sitemap.
C7_Witness ==
    /\ response.route = "job-status"
    /\ response.code = 200
    /\ response.job_id \in DOMAIN thread
    /\ thread[response.job_id].pc = "parse_sitemap"
    /\ thread[response.job_id].idx = 1
    /\ response.status[1] = "Parsing sitemap for"
    /\ response.completed = FALSE

CsvPathSetOnce ==
    [][\A t \in Jobs :
         Job(t).csv_path # None =>
            analysis_results'[t].csv_path = Job(t).csv_path]_vars

\* C9 as claimed: csv_path is set at most once and is unset in every state
\* in which completed is false.
C9_PathAbsentUntilCompleted ==
    /\ CsvPathSetOnce
    /\ [](\A t \in Jobs : ~Job(t).completed => Job(t).csv_path = None)

\* C9, amended: csv_path is set at most once, to the path of the finished
\* export of the job; it is unset in every state in which completed is
\* false except between its own assignment and the assignment of
\* completed, the last two statements of the thread, where the status is
\* 'Generating CSV' or 'completed'.
C9_PathSetOnceAfterExport ==
    /\ CsvPathSetOnce
    /\ [](\A t \in Jobs :
            Job(t).csv_path # None =>
               /\ Job(t).csv_path = CsvPathOf(t)
               /\ Job(t).csv_path \in DOMAIN exports
               /\ exports[Job(t).csv_path] =
                     [rows |-> CsvRows(Job(t).results), closed |-> TRUE]
               /\ ~Job(t).completed =>
                     /\ thread[t].pc \in {"status_completed", "mark_completed"}
                     /\ Job(t).status \in {<<"Generating CSV">>, <<"completed">>})

\* A state a reader can observe with csv_path set and completed false.
C9_Witness ==
    \E t \in Jobs :
        /\ Job(t).csv_path # None
        /\ ~Job(t).completed
        /\ Job(t).status = <<"completed">>

====
